---- MODULE Spec2Model ----
(***************************************************************************)
(* Model of the two per-user rate limiters of the repository:              *)
(*   SlidingWindowRateLimiter  (src/rate_limiter.py)                       *)
(*   ThrottlingRateLimiter     (src/rate_limiter_throttling.py)            *)
(* One limiter instance is modelled at a time (variable limiter).  Time is *)
(* an integer number of clock ticks; every time.time() call of the source  *)
(* is one read of the clock, so record_message reads it twice.             *)
(***************************************************************************)
EXTENDS Integers, Sequences, FiniteSets, TLC

\* ---- bounds of the model ----
MaxTime == 3
MaxWindow == 2
MaxRequests == 2
MaxInterval == 2
MaxDrift == 1

\* the user ids of the drivers are strings, compared by equality only
Users == {"1", "2"}
Instants == 0..MaxTime
None == -1

VARIABLES
    limiter,            \* which class the instance is: "sliding" or "throttling"
    window_size,        \* SlidingWindowRateLimiter.window_size
    max_requests,       \* SlidingWindowRateLimiter.max_requests
    users_history,      \* SlidingWindowRateLimiter.users_history: user -> deque
    min_interval,       \* ThrottlingRateLimiter.min_interval
    last_message_time,  \* ThrottlingRateLimiter.last_message_time: user -> instant
    now,                \* the value the clock shows (time.time())
    ret,                \* the call that returned last and what it returned
                        \*   (NoCall once the clock has moved between calls)
    denied,             \* history: user -> the oldest stored timestamp when the
                        \*   user was last refused, None once admitted again
                        \*   (sliding window)
    promised,           \* history: user -> instant announced by the last
                        \*   time_until_next_allowed (t + wait), None if none
    admitted,           \* history: user -> the instants stored by admitted
                        \*   record_message calls (throttling)
    threads,            \* thread -> the record_message call it is running:
                        \*   the line it is at (or how the call ended), its
                        \*   user_id and its locals current_time, last_time
    raced               \* history: NoRace until both threads have passed the
                        \*   check and neither has begun to store; then the
                        \*   length of the user's deque and the instant of
                        \*   the later check at that moment

vars == <<limiter, window_size, max_requests, users_history, min_interval,
          last_message_time, now, ret, denied, promised, admitted, threads,
          raced>>

\* ---- helpers ----
Min(a, b) == IF a < b THEN a ELSE b

\* mutant of clamp: the wait time is returned as computed
clamp_unclamped(wait_time) == wait_time

\* max(0, wait_time), rate_limiter.py:86 and rate_limiter_throttling.py:58
clamp(wait_time) == IF wait_time > 0 THEN wait_time ELSE 0

\* del d[k]
DictDel(d, k) == [x \in DOMAIN d \ {k} |-> d[x]]
\* mutant of DictSet: d.setdefault(k, v), a value already there is kept
DictSet_default(d, k, v) ==
    [x \in DOMAIN d \cup {k} |-> IF x \in DOMAIN d THEN d[x] ELSE v]

\* d[k] = v
DictSet(d, k, v) == [x \in DOMAIN d \cup {k} |-> IF x = k THEN v ELSE d[x]]

\* The values a read of the clock can give during a call that started at now:
\* a clock that never goes back has advanced by at most MaxDrift; a skewed
\* clock shows any instant.
ClockReads(skew) ==
    IF skew THEN Instants ELSE now..Min(now + MaxDrift, MaxTime)

Call(op, user_id, t, ok, wait) ==
    [op |-> op, user_id |-> user_id, t |-> t, ok |-> ok, wait |-> wait]

\* no call has returned since the clock last moved between calls
NoCall == Call("none", "", 0, FALSE, 0)

\* the two threads that call record_message on one instance
Threads == {"t1", "t2"}
Other(th) == CHOOSE o \in Threads : o # th
\* a thread that has not called yet
NoThread == [pc |-> "idle", user_id |-> "", current_time |-> None,
             last_time |-> None]
NoRace == [len |-> None, t |-> None]

\* The history variables serve the claims made for a clock that never goes
\* back; under a skewed clock they are left as they are.
Kept(skew, old, new) == IF skew THEN old ELSE new

\* ---- SlidingWindowRateLimiter ----

\* mutant of popleft_stale: an if in place of the while, one popleft at most
popleft_once(q, window_start_time) ==
    IF q # <<>> /\ Head(q) < window_start_time THEN Tail(q) ELSE q

\* mutant of popleft_stale: <= in place of <, the front is popped also when
\* it is exactly window_size old
RECURSIVE popleft_inclusive(_, _)
popleft_inclusive(q, window_start_time) ==
    IF q # <<>> /\ Head(q) <= window_start_time
    THEN popleft_inclusive(Tail(q), window_start_time)
    ELSE q

\* the while loop of _cleanup_window: popleft while the front is stale
RECURSIVE popleft_stale(_, _)
popleft_stale(q, window_start_time) ==
    IF q # <<>> /\ Head(q) < window_start_time
    THEN popleft_stale(Tail(q), window_start_time)
    ELSE q

\* mutant of cleanup_window: every user's deque is cleaned, not only user_id's
cleanup_window_sweeps_all(h, user_id, current_time) ==
    LET keep == {k \in DOMAIN h :
                    popleft_stale(h[k], current_time - window_size) # <<>>}
    IN  [k \in keep |-> popleft_stale(h[k], current_time - window_size)]

\* mutant of cleanup_window: the emptied deque is left in the dict
cleanup_window_keeps_empty(h, user_id, current_time) ==
    IF user_id \in DOMAIN h
    THEN [h EXCEPT ![user_id] =
             popleft_stale(@, current_time - window_size)]
    ELSE h

\* mutant of cleanup_window: the window starts one tick too early
cleanup_window_late(h, user_id, current_time) ==
    IF user_id \in DOMAIN h
    THEN LET q == popleft_stale(h[user_id], current_time - window_size - 1)
         IN  IF q = <<>> THEN DictDel(h, user_id)
                         ELSE [h EXCEPT ![user_id] = q]
    ELSE h

\* _cleanup_window(user_id, current_time): the history it leaves
cleanup_window(h, user_id, current_time) ==
    IF user_id \in DOMAIN h
    THEN LET window_start_time == current_time - window_size
             q == popleft_stale(h[user_id], window_start_time)
         IN  IF q = <<>> THEN DictDel(h, user_id)
                         ELSE [h EXCEPT ![user_id] = q]
    ELSE h

\* mutant of under_limit: <= in place of <
under_limit_inclusive(h, user_id) ==
    user_id \notin DOMAIN h \/ Len(h[user_id]) <= max_requests

\* the admission test of can_send_message and time_until_next_allowed
under_limit(h, user_id) ==
    user_id \notin DOMAIN h \/ Len(h[user_id]) < max_requests

\* the front of a user's deque, as the history variable denied records it
Oldest(h, user_id) ==
    IF h[user_id] = <<>> THEN None ELSE Head(h[user_id])

\* can_send_message(user_id) at instant current_time: history left and result
sw_can_send_message(h, user_id, current_time) ==
    LET h2 == cleanup_window(h, user_id, current_time)
    IN  [history |-> h2, ok |-> under_limit(h2, user_id)]

\* mutant of sw_append: appendleft in place of append
sw_append_left(h, user_id, current_time) ==
    IF user_id \in DOMAIN h
    THEN [h EXCEPT ![user_id] = <<current_time>> \o @]
    ELSE DictSet(h, user_id, <<current_time>>)

\* mutant of sw_append: the deque is replaced, not appended to
sw_append_replaces(h, user_id, current_time) ==
    DictSet(h, user_id, <<current_time>>)

\* the append of record_message
sw_append(h, user_id, current_time) ==
    IF user_id \in DOMAIN h
    THEN [h EXCEPT ![user_id] = Append(@, current_time)]
    ELSE DictSet(h, user_id, <<current_time>>)

\* time_until_next_allowed(user_id) at instant current_time
sw_time_until_next_allowed(h, user_id, current_time) ==
    LET h2 == cleanup_window(h, user_id, current_time)
    IN  [history |-> h2,
         wait |-> IF under_limit(h2, user_id)
                  THEN 0
                  ELSE clamp(window_size - (current_time - h2[user_id][1]))]

SlidingWindow_can_send_message(user_id, skew) ==
    /\ limiter = "sliding"
    /\ LET c == sw_can_send_message(users_history, user_id, now)
       IN  /\ users_history' = c.history
           /\ ret' = Call("can_send_message", user_id, now, c.ok, 0)
           /\ denied' = Kept(skew, denied,
                             IF c.ok THEN denied
                             ELSE [denied EXCEPT ![user_id] = Oldest(c.history, user_id)])
    /\ UNCHANGED <<limiter, window_size, max_requests, min_interval,
                   last_message_time, now, promised, admitted>>
    /\ UNCHANGED <<threads, raced>>

SlidingWindow_record_message(user_id, skew) ==
    /\ limiter = "sliding"
    /\ LET c == sw_can_send_message(users_history, user_id, now)
       IN  IF c.ok
           THEN \E current_time \in ClockReads(skew) :
                   /\ users_history' = sw_append(c.history, user_id, current_time)
                   /\ now' = current_time
                   /\ ret' = Call("record_message", user_id, now, TRUE, 0)
                   /\ denied' = Kept(skew, denied,
                                     [denied EXCEPT ![user_id] = None])
           ELSE /\ users_history' = c.history
                /\ ret' = Call("record_message", user_id, now, FALSE, 0)
                /\ denied' = Kept(skew, denied,
                                  [denied EXCEPT ![user_id] = Oldest(c.history, user_id)])
                /\ UNCHANGED now
    /\ UNCHANGED <<limiter, window_size, max_requests, min_interval,
                   last_message_time, promised, admitted>>
    /\ UNCHANGED <<threads, raced>>

SlidingWindow_time_until_next_allowed(user_id) ==
    /\ limiter = "sliding"
    /\ LET w == sw_time_until_next_allowed(users_history, user_id, now)
       IN  /\ users_history' = w.history
           /\ ret' = Call("time_until_next_allowed", user_id, now, FALSE, w.wait)
    /\ UNCHANGED <<limiter, window_size, max_requests, min_interval,
                   last_message_time, now, denied, promised, admitted>>
    /\ UNCHANGED <<threads, raced>>

\* ---- ThrottlingRateLimiter ----

\* mutant of th_can_send_message: the interval is one tick short
th_can_send_message_short(last, user_id, current_time) ==
    IF user_id \notin DOMAIN last
    THEN TRUE
    ELSE (current_time - last[user_id]) >= min_interval - 1

\* can_send_message(user_id) at instant current_time
th_can_send_message(last, user_id, current_time) ==
    IF user_id \notin DOMAIN last
    THEN TRUE
    ELSE (current_time - last[user_id]) >= min_interval

\* mutant of th_time_until_next_allowed: the elapsed time is not subtracted
th_time_until_next_allowed_full(last, user_id, current_time) ==
    IF user_id \notin DOMAIN last
    THEN 0
    ELSE clamp(min_interval)

\* time_until_next_allowed(user_id) at instant current_time
th_time_until_next_allowed(last, user_id, current_time) ==
    IF user_id \notin DOMAIN last
    THEN 0
    ELSE clamp(min_interval - (current_time - last[user_id]))

Throttling_can_send_message(user_id) ==
    /\ limiter = "throttling"
    /\ LET ok == th_can_send_message(last_message_time, user_id, now)
       IN  ret' = Call("can_send_message", user_id, now, ok, 0)
    /\ UNCHANGED <<limiter, window_size, max_requests, users_history,
                   min_interval, last_message_time, now, denied, promised,
                   admitted>>
    /\ UNCHANGED <<threads, raced>>

Throttling_record_message(user_id, skew) ==
    /\ limiter = "throttling"
    /\ IF th_can_send_message(last_message_time, user_id, now)
       THEN \E current_time \in ClockReads(skew) :
               /\ last_message_time' = DictSet(last_message_time, user_id, current_time)
               /\ now' = current_time
               /\ ret' = Call("record_message", user_id, now, TRUE, 0)
               /\ promised' = Kept(skew, promised,
                                   [promised EXCEPT ![user_id] = None])
               /\ admitted' = Kept(skew, admitted,
                                   [admitted EXCEPT ![user_id] = @ \cup {current_time}])
       ELSE /\ ret' = Call("record_message", user_id, now, FALSE, 0)
            /\ UNCHANGED <<last_message_time, now, promised, admitted>>
    /\ UNCHANGED <<limiter, window_size, max_requests, users_history,
                   min_interval, denied>>
    /\ UNCHANGED <<threads, raced>>

Throttling_time_until_next_allowed(user_id, skew) ==
    /\ limiter = "throttling"
    /\ LET w == th_time_until_next_allowed(last_message_time, user_id, now)
       IN  /\ ret' = Call("time_until_next_allowed", user_id, now, FALSE, w)
           /\ promised' = Kept(skew, promised,
                               [promised EXCEPT ![user_id] = now + w])
    /\ UNCHANGED <<limiter, window_size, max_requests, users_history,
                   min_interval, last_message_time, now, denied, admitted>>
    /\ UNCHANGED <<threads, raced>>

\* ---- the clock ----

\* time passes between two calls (time.sleep in the drivers)
Tick ==
    /\ now < MaxTime
    /\ now' = now + 1
    /\ ret' = NoCall
    /\ UNCHANGED <<limiter, window_size, max_requests, users_history,
                   min_interval, last_message_time, denied, promised,
                   admitted>>
    /\ UNCHANGED <<threads, raced>>

\* the wall clock is set back between two calls
ClockBack ==
    /\ \E t \in 0..(now - 1) : now' = t
    /\ ret' = NoCall
    /\ UNCHANGED <<limiter, window_size, max_requests, users_history,
                   min_interval, last_message_time, denied, promised,
                   admitted>>
    /\ UNCHANGED <<threads, raced>>

\* ---- two threads in record_message, no lock ----
\* A thread runs record_message one line at a time; the other thread and the
\* clock can take a step between any two lines.  A call ends at
\* "return True", "return False", "KeyError" or "IndexError".

At(th, line) == threads[th].pc = line
Goto(th, line) == threads' = [threads EXCEPT ![th].pc = line]
Ended(th) == threads[th].pc \in {"return True", "return False", "KeyError", "IndexError"}

\* what the threads leave alone
RaceFrame ==
    UNCHANGED <<limiter, window_size, max_requests, min_interval, now, ret,
                denied, promised, admitted>>

\* thread th leaves the check with True at instant t: raced is set if the
\* other thread stands between its own check and its first line after it
Passed(th, line, len, t) ==
    raced' = IF At(Other(th), line)
             THEN [len |-> len, t |-> t]
             ELSE raced

\* the later of the instants the two threads read at line 46
LaterCheck == IF threads["t1"].current_time > threads["t2"].current_time
              THEN threads["t1"].current_time
              ELSE threads["t2"].current_time

\* both threads call record_message(user_id); what was recorded about the
\* sequential calls before is dropped
Race_start(user_id) ==
    /\ \A th \in Threads : At(th, "idle")
    /\ threads' = [th \in Threads |->
                      [NoThread EXCEPT !.pc = IF limiter = "sliding"
                                              THEN "line46" ELSE "line28",
                                       !.user_id = user_id]]
    /\ ret' = NoCall
    /\ denied' = [u \in Users |-> None]
    /\ promised' = [u \in Users |-> None]
    /\ admitted' = [u \in Users |-> {}]
    /\ UNCHANGED <<limiter, window_size, max_requests, min_interval, now,
                   users_history, last_message_time, raced>>

\* can_send_message: current_time = time.time()
sw_line46(th) ==
    /\ At(th, "line46")
    /\ threads' = [threads EXCEPT ![th].pc = "line29",
                                  ![th].current_time = now]
    /\ RaceFrame
    /\ UNCHANGED <<users_history, last_message_time, raced>>

\* _cleanup_window: if user_id in self.users_history
sw_line29(th) ==
    /\ At(th, "line29")
    /\ Goto(th, IF threads[th].user_id \in DOMAIN users_history
                THEN "line32" ELSE "line50")
    /\ RaceFrame
    /\ UNCHANGED <<users_history, last_message_time, raced>>

\* while self.users_history[user_id] ...
sw_line32(th) ==
    /\ limiter = "sliding"
    /\ At(th, "line32")
    /\ LET u == threads[th].user_id
       IN  Goto(th, IF u \notin DOMAIN users_history THEN "KeyError"
                    ELSE IF users_history[u] = <<>> THEN "line35"
                    ELSE "line32front")
    /\ RaceFrame
    /\ UNCHANGED <<users_history, last_message_time, raced>>

\* ... and self.users_history[user_id][0] < window_start_time
sw_line32front(th) ==
    /\ At(th, "line32front")
    /\ LET u == threads[th].user_id
       IN  Goto(th, IF u \notin DOMAIN users_history THEN "KeyError"
                    ELSE IF users_history[u] = <<>> THEN "IndexError"
                    ELSE IF users_history[u][1] < threads[th].current_time - window_size
                         THEN "line33"
                    ELSE "line35")
    /\ RaceFrame
    /\ UNCHANGED <<users_history, last_message_time, raced>>

\* self.users_history[user_id].popleft()
sw_line33(th) ==
    /\ At(th, "line33")
    /\ LET u == threads[th].user_id
       IN  IF u \notin DOMAIN users_history
           THEN Goto(th, "KeyError") /\ UNCHANGED users_history
           ELSE IF users_history[u] = <<>>
           THEN Goto(th, "IndexError") /\ UNCHANGED users_history
           ELSE /\ users_history' = [users_history EXCEPT ![u] = Tail(@)]
                /\ Goto(th, "line32")
    /\ RaceFrame
    /\ UNCHANGED <<last_message_time, raced>>

\* if not self.users_history[user_id]
sw_line35(th) ==
    /\ At(th, "line35")
    /\ LET u == threads[th].user_id
       IN  Goto(th, IF u \notin DOMAIN users_history THEN "KeyError"
                    ELSE IF users_history[u] = <<>> THEN "line36"
                    ELSE "line50")
    /\ RaceFrame
    /\ UNCHANGED <<users_history, last_message_time, raced>>

\* del self.users_history[user_id]
sw_line36(th) ==
    /\ At(th, "line36")
    /\ LET u == threads[th].user_id
       IN  IF u \notin DOMAIN users_history
           THEN Goto(th, "KeyError") /\ UNCHANGED users_history
           ELSE /\ users_history' = DictDel(users_history, u)
                /\ Goto(th, "line50")
    /\ RaceFrame
    /\ UNCHANGED <<last_message_time, raced>>

\* if user_id not in self.users_history ...: return True
sw_line50(th) ==
    /\ At(th, "line50")
    /\ IF threads[th].user_id \notin DOMAIN users_history
       THEN Goto(th, "line62") /\ Passed(th, "line62", 0, LaterCheck)
       ELSE Goto(th, "line50len") /\ UNCHANGED raced
    /\ RaceFrame
    /\ UNCHANGED <<users_history, last_message_time>>

\* ... or len(self.users_history[user_id]) < self.max_requests: return True
sw_line50len(th) ==
    /\ At(th, "line50len")
    /\ LET u == threads[th].user_id
       IN  IF u \notin DOMAIN users_history
           THEN Goto(th, "KeyError") /\ UNCHANGED raced
           ELSE IF under_limit(users_history, u)
           THEN Goto(th, "line62") /\ Passed(th, "line62", Len(users_history[u]), LaterCheck)
           ELSE Goto(th, "return False") /\ UNCHANGED raced
    /\ RaceFrame
    /\ UNCHANGED <<users_history, last_message_time>>

\* record_message: current_time = time.time()
sw_line62(th) ==
    /\ At(th, "line62")
    /\ threads' = [threads EXCEPT ![th].pc = "line63",
                                  ![th].current_time = now]
    /\ RaceFrame
    /\ UNCHANGED <<users_history, last_message_time, raced>>

\* if user_id not in self.users_history
sw_line63(th) ==
    /\ At(th, "line63")
    /\ Goto(th, IF threads[th].user_id \notin DOMAIN users_history
                THEN "line64" ELSE "line65")
    /\ RaceFrame
    /\ UNCHANGED <<users_history, last_message_time, raced>>

\* self.users_history[user_id] = deque()
sw_line64(th) ==
    /\ At(th, "line64")
    /\ users_history' = DictSet(users_history, threads[th].user_id, <<>>)
    /\ Goto(th, "line65")
    /\ RaceFrame
    /\ UNCHANGED <<last_message_time, raced>>

\* self.users_history[user_id].append(current_time); return True
sw_line65(th) ==
    /\ At(th, "line65")
    /\ LET u == threads[th].user_id
       IN  IF u \notin DOMAIN users_history
           THEN Goto(th, "KeyError") /\ UNCHANGED users_history
           ELSE /\ users_history' = sw_append(users_history, u,
                                              threads[th].current_time)
                /\ Goto(th, "return True")
    /\ RaceFrame
    /\ UNCHANGED <<last_message_time, raced>>

\* can_send_message: last_time = self.last_message_time.get(user_id);
\* if last_time is None: return True
th_line28(th) ==
    /\ At(th, "line28")
    /\ LET u == threads[th].user_id
       IN  IF u \notin DOMAIN last_message_time
           THEN Goto(th, "line42") /\ Passed(th, "line42", 0, now)
           ELSE /\ threads' = [threads EXCEPT
                                  ![th].pc = "line32",
                                  ![th].last_time = last_message_time[u]]
                /\ UNCHANGED raced
    /\ RaceFrame
    /\ UNCHANGED <<users_history, last_message_time>>

\* return (time.time() - last_time) >= self.min_interval
th_line32(th) ==
    /\ limiter = "throttling"
    /\ At(th, "line32")
    /\ IF (now - threads[th].last_time) >= min_interval
       THEN Goto(th, "line42") /\ Passed(th, "line42", 0, now)
       ELSE Goto(th, "return False") /\ UNCHANGED raced
    /\ RaceFrame
    /\ UNCHANGED <<users_history, last_message_time>>

\* record_message: the right-hand side time.time()
th_line42(th) ==
    /\ At(th, "line42")
    /\ threads' = [threads EXCEPT ![th].pc = "line42store",
                                  ![th].current_time = now]
    /\ RaceFrame
    /\ UNCHANGED <<users_history, last_message_time, raced>>

\* self.last_message_time[user_id] = ...; return True
th_line42store(th) ==
    /\ At(th, "line42store")
    /\ last_message_time' = DictSet(last_message_time, threads[th].user_id,
                                    threads[th].current_time)
    /\ Goto(th, "return True")
    /\ RaceFrame
    /\ UNCHANGED <<users_history, raced>>

\* ---- specifications ----

Init ==
    /\ limiter \in {"sliding", "throttling"}
    /\ IF limiter = "sliding"
       THEN /\ window_size \in 0..MaxWindow
            /\ max_requests \in 0..MaxRequests
            /\ min_interval = 0
       ELSE /\ window_size = 0
            /\ max_requests = 0
            /\ min_interval \in 0..MaxInterval
    /\ users_history = <<>>
    /\ last_message_time = <<>>
    /\ now = 0
    /\ ret = NoCall
    /\ denied = [u \in Users |-> None]
    /\ promised = [u \in Users |-> None]
    /\ admitted = [u \in Users |-> {}]
    /\ threads = [th \in Threads |-> NoThread]
    /\ raced = NoRace

Calls(skew) ==
    \E user_id \in Users :
        \/ SlidingWindow_can_send_message(user_id, skew)
        \/ SlidingWindow_record_message(user_id, skew)
        \/ SlidingWindow_time_until_next_allowed(user_id)
        \/ Throttling_can_send_message(user_id)
        \/ Throttling_record_message(user_id, skew)
        \/ Throttling_time_until_next_allowed(user_id, skew)

\* sequential calls, clock that never goes back
Next == Calls(FALSE) \/ Tick
Spec == Init /\ [][Next]_vars

\* sequential calls under a clock that keeps advancing, every user's
\* record_message being retried for ever (the loops of the drivers)
Fairness ==
    /\ WF_vars(Tick)
    /\ \A user_id \in Users : WF_vars(SlidingWindow_record_message(user_id, FALSE))
LiveSpec == Init /\ [][Next]_vars /\ Fairness

\* sequential calls, clock that can be set back at any read
NextSkew == Calls(TRUE) \/ Tick \/ ClockBack
SpecSkew == Init /\ [][NextSkew]_vars

\* sequential calls first, then one call of record_message by each of two
\* threads for the same user, under a clock that never goes back
NextRace ==
    \/ (\A th \in Threads : At(th, "idle")) /\ Calls(FALSE)
    \/ Tick
    \/ \E user_id \in Users : Race_start(user_id)
    \/ \E th \in Threads :
          \/ sw_line46(th)
          \/ sw_line29(th)
          \/ sw_line32(th)
          \/ sw_line32front(th)
          \/ sw_line33(th)
          \/ sw_line35(th)
          \/ sw_line36(th)
          \/ sw_line50(th)
          \/ sw_line50len(th)
          \/ sw_line62(th)
          \/ sw_line63(th)
          \/ sw_line64(th)
          \/ sw_line65(th)
          \/ th_line28(th)
          \/ th_line32(th)
          \/ th_line42(th)
          \/ th_line42store(th)
SpecRace == Init /\ [][NextRace]_vars

TypeOK ==
    /\ limiter \in {"sliding", "throttling"}
    /\ now \in Instants
    /\ DOMAIN users_history \subseteq Users
    /\ DOMAIN last_message_time \subseteq Users
    /\ \A u \in Users : denied[u] \in Instants \cup {None}
    /\ \A u \in Users : promised[u] \in Int
    /\ \A u \in Users : admitted[u] \subseteq Instants
    /\ window_size \in 0..MaxWindow
    /\ max_requests \in 0..MaxRequests
    /\ min_interval \in 0..MaxInterval

\* ---- the claims ----

Stored(u) == IF u \in DOMAIN users_history THEN users_history[u] ELSE <<>>

\* the stored timestamps of u that lie in the window ending at t
InWindow(u, t) ==
    {i \in 1..Len(Stored(u)) : Stored(u)[i] >= t - window_size}

\* C1: sliding window with max_requests >= 1 under a clock that never goes
\* back: no user ever has more than max_requests stored timestamps, hence
\* never more than max_requests timestamps inside the current window.
C1_AtMostMaxRequests ==
    (limiter = "sliding" /\ max_requests >= 1) =>
        \A u \in Users :
            /\ Len(Stored(u)) <= max_requests
            /\ Cardinality(InWindow(u, now)) <= max_requests

\* a user with a full window of two timestamps has just been refused
C1_Witness ==
    /\ limiter = "sliding"
    /\ max_requests = 2
    /\ ret.op = "record_message"
    /\ ~ret.ok
    /\ Cardinality(InWindow(ret.user_id, now)) = 2

\* C2 (as claimed): with max_requests = 0 every record_message returns False.
C2_ZeroLimitDeniesAll ==
    (limiter = "sliding" /\ max_requests = 0 /\ ret.op = "record_message") =>
        ~ret.ok

\* C3: throttling under a clock that never goes back: the timestamp an
\* admitted record_message stores is at least min_interval later than every
\* timestamp stored by an earlier admitted record_message of the same user.
C3_AdmissionsSpaced ==
    [][\A u \in Users :
          (Throttling_record_message(u, FALSE) /\ ret'.ok) =>
              \A a \in admitted[u] : last_message_time'[u] - a >= min_interval]_vars

\* a second admission of a user, stored later than its decision was taken
C3_Witness ==
    /\ limiter = "throttling"
    /\ min_interval > 0
    /\ ret.op = "record_message"
    /\ ret.ok
    /\ now > ret.t
    /\ Cardinality(admitted[ret.user_id]) >= 2

\* C4: record_message changes the state iff it returns True.  Refused: the
\* mapping is as before.  Admitted: the user's sequence is its in-window part
\* with exactly the stored instant appended and the other users' entries are
\* untouched (sliding window), resp. the user's last_message_time is set to
\* the stored instant and the other users' are untouched (throttling).
C4_RecordFrame ==
    [][\A u \in Users :
          /\ SlidingWindow_record_message(u, FALSE) =>
                IF ret'.ok
                THEN /\ u \in DOMAIN users_history'
                     /\ users_history'[u] =
                           Append(SelectSeq(Stored(u),
                                            LAMBDA ts : ts >= ret'.t - window_size),
                                  now')
                     /\ users_history' # users_history
                     /\ \A v \in Users \ {u} :
                           /\ v \in DOMAIN users_history' <=> v \in DOMAIN users_history
                           /\ v \in DOMAIN users_history =>
                                 users_history'[v] = users_history[v]
                ELSE users_history' = users_history
          /\ Throttling_record_message(u, FALSE) =>
                IF ret'.ok
                THEN /\ DOMAIN last_message_time' = DOMAIN last_message_time \cup {u}
                     /\ last_message_time'[u] = now'
                     /\ \A v \in DOMAIN last_message_time \ {u} :
                           last_message_time'[v] = last_message_time[v]
                ELSE last_message_time' = last_message_time]_vars

\* a second admission of a user, appended behind an earlier timestamp and
\* stored later than its decision was taken
C4_Witness ==
    /\ limiter = "sliding"
    /\ ret.op = "record_message"
    /\ ret.ok
    /\ now > ret.t
    /\ Len(Stored(ret.user_id)) = 2
    /\ Stored(ret.user_id)[1] < ret.t
    /\ Stored(ret.user_id)[2] = now

\* C5: time_until_next_allowed never returns a negative value, also when the
\* clock has gone back behind a stored timestamp.
C5_WaitNonNegative ==
    ret.op = "time_until_next_allowed" => ret.wait >= 0

\* a wait computed at an instant earlier than the user's stored timestamp
C5_Witness ==
    /\ ret.op = "time_until_next_allowed"
    /\ \/ /\ limiter = "throttling"
          /\ ret.user_id \in DOMAIN last_message_time
          /\ last_message_time[ret.user_id] > ret.t
       \/ /\ limiter = "sliding"
          /\ Stored(ret.user_id) # <<>>
          /\ Stored(ret.user_id)[1] > ret.t
    /\ ret.wait > 0

\* C6 (as claimed, for a limiter built with window_size > 0 and
\* max_requests >= 1): sliding window: at every instant
\* time_until_next_allowed returns 0 exactly when can_send_message at that
\* instant returns True.
C6_ZeroWaitIffCanSend ==
    (limiter = "sliding" /\ window_size > 0 /\ max_requests >= 1) =>
        \A u \in Users :
            (sw_time_until_next_allowed(users_history, u, now).wait = 0)
                <=> sw_can_send_message(users_history, u, now).ok

\* C7: throttling under a clock that never goes back: once
\* time_until_next_allowed(u) has returned d at instant t and no record_message
\* of u has been admitted since, can_send_message(u) at instant t' >= t
\* returns True exactly when t' >= t + d; and can_send_message exactly
\* min_interval after the stored timestamp returns True.
C7_WaitIsExact ==
    (limiter = "throttling" /\ ret.op = "can_send_message") =>
        /\ promised[ret.user_id] # None =>
              (ret.ok <=> ret.t >= promised[ret.user_id])
        /\ (/\ ret.user_id \in DOMAIN last_message_time
            /\ ret.t = last_message_time[ret.user_id] + min_interval) => ret.ok

\* a user told to wait is let through at exactly the announced instant, which
\* is min_interval after its last admission
C7_Witness ==
    /\ limiter = "throttling"
    /\ min_interval = 2
    /\ ret.op = "can_send_message"
    /\ ret.ok
    /\ ret.user_id \in DOMAIN last_message_time
    /\ promised[ret.user_id] = ret.t
    /\ ret.t = last_message_time[ret.user_id] + min_interval

\* C8: sliding window, max_requests >= 1, window_size > 0, clock that keeps
\* advancing: a user refused while its oldest stored timestamp was o is refused
\* by every can_send_message / record_message at an instant t with
\* t - o < window_size and admitted by every one at an instant t > o +
\* window_size; and a refused user whose record_message is retried is
\* eventually admitted again (as long as the modelled clock has an instant
\* later than o + window_size).
C8_Refused(u) ==
    /\ limiter = "sliding"
    /\ max_requests >= 1
    /\ window_size > 0
    /\ denied[u] # None

C8_NoStarvation ==
    /\ [][\A u \in Users :
            (/\ C8_Refused(u)
             /\ \/ SlidingWindow_record_message(u, FALSE)
                \/ SlidingWindow_can_send_message(u, FALSE)) =>
                /\ now - denied[u] < window_size => ~ret'.ok
                /\ now > denied[u] + window_size => ret'.ok]_vars
    /\ \A u \in Users :
          (C8_Refused(u) /\ denied[u] + window_size < MaxTime)
              ~> (ret.op = "record_message" /\ ret.user_id = u /\ ret.ok)

\* a user that was refused has been admitted again at the first instant
\* later than its oldest timestamp + window_size
C8_Witness ==
    /\ limiter = "sliding"
    /\ max_requests >= 1
    /\ window_size = 1
    /\ ret.op = "record_message"
    /\ ret.ok
    /\ ret.t = 2
    /\ Stored(ret.user_id) = <<now>>
    /\ \E v \in Users \ {ret.user_id} : denied[v] = 0 /\ Stored(v) = <<0>>

\* C9 (as claimed, for a limiter built with window_size > 0 and
\* max_requests >= 1): sliding window: once a call for any user has run its
\* cleanup at instant t, users_history holds no user whose stored timestamps
\* are all < t - window_size.
AgedOut(u, t) ==
    /\ u \in DOMAIN users_history
    /\ \A i \in 1..Len(users_history[u]) : users_history[u][i] < t - window_size

C9_NoAgedOutEntry ==
    (limiter = "sliding" /\ window_size > 0 /\ max_requests >= 1 /\ ret.op # "none") =>
        \A u \in Users : ~AgedOut(u, ret.t)

\* C9 (amended): once a call for user u has run its cleanup at instant t,
\* users_history holds no entry for u whose timestamps are all
\* < t - window_size; the entries of the other users are left as they are.
C9_NoAgedOutEntryOfCaller ==
    (limiter = "sliding" /\ ret.op # "none") => ~AgedOut(ret.user_id, ret.t)

\* a user that had been refused (so had an entry) is gone from the mapping
\* after a call of its own, while the other user's aged-out entry is still there
C9_Witness ==
    /\ limiter = "sliding"
    /\ max_requests >= 1
    /\ ret.op = "can_send_message"
    /\ denied[ret.user_id] # None
    /\ ret.user_id \notin DOMAIN users_history
    /\ \E v \in Users : AgedOut(v, ret.t)

\* C10: sliding window: between two calls every user present in
\* users_history has a non-empty sequence.
C10_NoEmptyEntry ==
    limiter = "sliding" =>
        \A u \in DOMAIN users_history : users_history[u] # <<>>

\* a cleanup has emptied the sequence of a user that had been refused, and the
\* user is gone from the mapping
C10_Witness ==
    /\ limiter = "sliding"
    /\ max_requests >= 1
    /\ ret.op = "time_until_next_allowed"
    /\ denied[ret.user_id] # None
    /\ ret.user_id \notin DOMAIN users_history
    /\ ret.wait = 0

\* ---- independence, idempotence and frame of the calls ----

\* the mapping cut down to the entry of one user
Only(d, u) == [k \in DOMAIN d \cap {u} |-> d[k]]

\* a can_send_message or time_until_next_allowed call for u
ReadOnlyCall(u) ==
    \/ SlidingWindow_can_send_message(u, FALSE)
    \/ SlidingWindow_time_until_next_allowed(u)
    \/ Throttling_can_send_message(u)
    \/ Throttling_time_until_next_allowed(u, FALSE)

\* any call for u
AnyCall(u) ==
    \/ ReadOnlyCall(u)
    \/ SlidingWindow_record_message(u, FALSE)
    \/ Throttling_record_message(u, FALSE)

\* what is stored for v is the same before and after the step
SameEntry(v) ==
    /\ v \in DOMAIN users_history' <=> v \in DOMAIN users_history
    /\ v \in DOMAIN users_history => users_history'[v] = users_history[v]
    /\ v \in DOMAIN last_message_time' <=> v \in DOMAIN last_message_time
    /\ v \in DOMAIN last_message_time =>
          last_message_time'[v] = last_message_time[v]

\* C11: a call for user u leaves what is stored for every other user as it
\* is, and its result is the one the call gives on a limiter that holds u's
\* entry alone: the other users' entries do not enter the decision.
C11_KeysIndependent ==
    [][\A u \in Users :
          /\ AnyCall(u) => \A v \in Users \ {u} : SameEntry(v)
          /\ (SlidingWindow_can_send_message(u, FALSE)
                 \/ SlidingWindow_record_message(u, FALSE)) =>
                ret'.ok = sw_can_send_message(Only(users_history, u), u, now).ok
          /\ SlidingWindow_time_until_next_allowed(u) =>
                ret'.wait =
                    sw_time_until_next_allowed(Only(users_history, u), u, now).wait
          /\ (Throttling_can_send_message(u)
                 \/ Throttling_record_message(u, FALSE)) =>
                ret'.ok = th_can_send_message(Only(last_message_time, u), u, now)
          /\ Throttling_time_until_next_allowed(u, FALSE) =>
                ret'.wait =
                    th_time_until_next_allowed(Only(last_message_time, u), u, now)]_vars

\* a user is admitted while the other user, refused earlier, still holds its
\* full and by now aged-out sequence
C11_Witness ==
    /\ limiter = "sliding"
    /\ max_requests >= 1
    /\ ret.op = "record_message"
    /\ ret.ok
    /\ \E v \in Users \ {ret.user_id} :
          /\ denied[v] # None
          /\ Len(Stored(v)) = max_requests
          /\ AgedOut(v, ret.t)

\* C12: at one instant, after a first can_send_message or
\* time_until_next_allowed call for u, every further such call for u leaves
\* the state as it is and returns what the same call returned, or would have
\* returned, before the first one.
C12_ReadsIdempotent ==
    [][\A u \in Users :
          ReadOnlyCall(u) =>
              /\ limiter = "sliding" =>
                    /\ sw_can_send_message(users_history', u, now') =
                          [history |-> users_history',
                           ok |-> sw_can_send_message(users_history, u, now).ok]
                    /\ sw_time_until_next_allowed(users_history', u, now') =
                          [history |-> users_history',
                           wait |-> sw_time_until_next_allowed(users_history, u, now).wait]
                    /\ SlidingWindow_can_send_message(u, FALSE) =>
                          ret'.ok = sw_can_send_message(users_history', u, now').ok
                    /\ SlidingWindow_time_until_next_allowed(u) =>
                          ret'.wait =
                              sw_time_until_next_allowed(users_history', u, now').wait
              /\ limiter = "throttling" =>
                    /\ last_message_time' = last_message_time
                    /\ Throttling_can_send_message(u) =>
                          ret'.ok = th_can_send_message(last_message_time', u, now')
                    /\ Throttling_time_until_next_allowed(u, FALSE) =>
                          ret'.wait =
                              th_time_until_next_allowed(last_message_time', u, now')]_vars

\* can_send_message has just answered True for a user that had been refused
\* with a full sequence of two, of which a cleanup has left one
C12_Witness ==
    /\ limiter = "sliding"
    /\ max_requests = 2
    /\ ret.op = "can_send_message"
    /\ ret.ok
    /\ denied[ret.user_id] # None
    /\ Len(Stored(ret.user_id)) = 1

\* s is what is left of q after dropping a prefix
IsSuffix(s, q) ==
    \E k \in 0..Len(q) : s = SubSeq(q, k + 1, Len(q))

\* C13: can_send_message and time_until_next_allowed add nothing.  Sliding
\* window: no user is created, the other users are untouched, the called
\* user's sequence becomes a suffix of itself and every timestamp dropped is
\* < now - window_size.  Throttling: last_message_time is unchanged.
C13_ReadsOnlyRemove ==
    [][\A u \in Users :
          ReadOnlyCall(u) =>
              /\ last_message_time' = last_message_time
              /\ DOMAIN users_history' \subseteq DOMAIN users_history
              /\ \A v \in Users \ {u} : SameEntry(v)
              /\ LET old == Stored(u)
                     new == IF u \in DOMAIN users_history'
                            THEN users_history'[u] ELSE <<>>
                 IN  /\ IsSuffix(new, old)
                     /\ \A i \in 1..(Len(old) - Len(new)) :
                           old[i] < now - window_size]_vars

\* time_until_next_allowed has just answered for a user that had been refused
\* with a full sequence of two, of which a cleanup has left one
C13_Witness ==
    /\ limiter = "sliding"
    /\ max_requests = 2
    /\ ret.op = "time_until_next_allowed"
    /\ ret.wait = 0
    /\ denied[ret.user_id] # None
    /\ Len(Stored(ret.user_id)) = 1

\* ---- the cleanup rule and the order of the timestamps ----

NonDecreasing(q) == \A i \in 1..(Len(q) - 1) : q[i] <= q[i + 1]

\* the sequence _cleanup_window(u, t) leaves for u (empty: the key is deleted)
Cleaned(u, t) ==
    LET h == cleanup_window(users_history, u, t)
    IN  IF u \in DOMAIN h THEN h[u] ELSE <<>>

\* the timestamps of u that are not older than window_size at t, in order
Fresh(u, t) ==
    SelectSeq(Stored(u), LAMBDA ts : ts >= t - window_size)

C15_HistoryOrdered ==
    limiter = "sliding" => \A u \in Users : NonDecreasing(Stored(u))

\* a second timestamp, later than the first, has just been appended
C15_Witness ==
    /\ limiter = "sliding"
    /\ ret.op = "record_message"
    /\ ret.ok
    /\ Len(Stored(ret.user_id)) = 2
    /\ Stored(ret.user_id)[1] < Stored(ret.user_id)[2]
    /\ Stored(ret.user_id)[2] = ret.t

\* C16 (as claimed): the timestamp an admitted record_message stores is the
\* instant at which its admission was decided.
C16_OneClockRead ==
    (ret.op = "record_message" /\ ret.ok) =>
        /\ limiter = "sliding" =>
              Stored(ret.user_id)[Len(Stored(ret.user_id))] = ret.t
        /\ limiter = "throttling" =>
              last_message_time[ret.user_id] = ret.t

\* ---- a window of size zero ----

\* the number of timestamps of u equal to t
StoredAt(u, t) == Cardinality({i \in 1..Len(Stored(u)) : Stored(u)[i] = t})

\* C18 (as claimed): with window_size = 0 and max_requests >= 1 every
\* record_message is admitted.
C18_ZeroWindowAdmitsAll ==
    (/\ limiter = "sliding"
     /\ window_size = 0
     /\ max_requests >= 1
     /\ ret.op = "record_message") => ret.ok

\* C18 (amended): with window_size = 0 and max_requests >= 1, under a clock
\* that never goes back, record_message(u) is admitted iff fewer than
\* max_requests timestamps of u are equal to the instant of the call: a call
\* later than every stored timestamp is admitted, of several calls at one
\* instant only max_requests are.
C18_ZeroWindowAdmitsFresh ==
    [][\A u \in Users :
          (/\ SlidingWindow_record_message(u, FALSE)
           /\ window_size = 0
           /\ max_requests >= 1) =>
              /\ ret'.ok <=> StoredAt(u, now) < max_requests
              /\ (\A i \in 1..Len(Stored(u)) : Stored(u)[i] < now) => ret'.ok]_vars

\* a second call at the instant of the first is refused
C18_Witness ==
    /\ limiter = "sliding"
    /\ window_size = 0
    /\ max_requests = 1
    /\ ret.op = "record_message"
    /\ ~ret.ok
    /\ Stored(ret.user_id) = <<ret.t>>
    /\ now = ret.t

\* ---- the evolution of last_message_time ----

SetMax(S) == CHOOSE x \in S : \A y \in S : y <= x

\* C19: throttling under a clock that never goes back.  The mappings start
\* empty.  A user enters last_message_time only by an admitted
\* record_message of that user and is never removed; the value never
\* decreases, changes only by an admitted record_message of that user and is
\* the instant stored by the user's most recent admitted record_message.
C19_LastMessageTimeEvolution ==
    /\ (last_message_time = <<>> /\ users_history = <<>>)
    /\ [][limiter = "throttling" =>
            /\ DOMAIN last_message_time \subseteq DOMAIN last_message_time'
            /\ \A u \in Users :
                  IF Throttling_record_message(u, FALSE) /\ ret'.ok
                  THEN /\ u \in DOMAIN last_message_time'
                       /\ last_message_time'[u] = now'
                       /\ u \in DOMAIN last_message_time =>
                              last_message_time'[u] >= last_message_time[u]
                       /\ \A v \in Users \ {u} : SameEntry(v)
                  ELSE (\E v \in Users \ {u} :
                            Throttling_record_message(v, FALSE) /\ ret'.ok)
                       \/ last_message_time' = last_message_time]_vars
    /\ [](limiter = "throttling" =>
            \A u \in Users :
                /\ u \in DOMAIN last_message_time <=> admitted[u] # {}
                /\ u \in DOMAIN last_message_time =>
                      last_message_time[u] = SetMax(admitted[u]))

\* a user's entry has just been overwritten by a later admission
C19_Witness ==
    /\ limiter = "throttling"
    /\ ret.op = "record_message"
    /\ ret.ok
    /\ Cardinality(admitted[ret.user_id]) >= 2
    /\ last_message_time[ret.user_id] = now
    /\ last_message_time[ret.user_id] = SetMax(admitted[ret.user_id])
    /\ DOMAIN last_message_time = Users

\* ---- two record_message calls without a lock ----

RaceUser == threads["t1"].user_id

\* C17: two threads call record_message for the same user with no lock.
\* Whenever both have passed the admission check before either has begun to
\* store, both return True.  Sliding window: if the user had an entry at that
\* moment, both timestamps are appended to it, so an entry of
\* max_requests - 1 timestamps ends with max_requests + 1; if it had none,
\* one or two timestamps are left (the second deque() can replace the first);
\* every timestamp left lies in the window of the later check.  Throttling:
\* both threads store their instant, neither before the check, and neither
\* is compared with the other.
C17_BothAdmitted ==
    (raced # NoRace /\ \A th \in Threads : Ended(th)) =>
        /\ \A th \in Threads : At(th, "return True")
        /\ limiter = "sliding" =>
              /\ raced.len = 0 \/ raced.len < max_requests
              /\ IF raced.len > 0
                 THEN Len(Stored(RaceUser)) = raced.len + 2
                 ELSE Len(Stored(RaceUser)) \in 1..2
              /\ raced.len = max_requests - 1 /\ raced.len > 0 =>
                    Len(Stored(RaceUser)) > max_requests
              /\ \A i \in 1..Len(Stored(RaceUser)) :
                    Stored(RaceUser)[i] >= raced.t - window_size
        /\ limiter = "throttling" =>
              /\ RaceUser \in DOMAIN last_message_time
              /\ last_message_time[RaceUser] \in
                    {threads[th].current_time : th \in Threads}
              /\ \A th \in Threads : threads[th].current_time >= raced.t

\* both threads were admitted and the user has more than max_requests
\* timestamps in the window
C17_Witness ==
    /\ limiter = "sliding"
    /\ window_size > 0
    /\ max_requests >= 1
    /\ raced # NoRace
    /\ \A th \in Threads : At(th, "return True")
    /\ Cardinality(InWindow(RaceUser, now)) > max_requests

\* both threads were admitted at instants closer together than min_interval
C17_TwoCloserThanInterval ==
    /\ limiter = "throttling"
    /\ min_interval > 0
    /\ raced # NoRace
    /\ \A th \in Threads : At(th, "return True")
    /\ threads["t1"].current_time - threads["t2"].current_time < min_interval
    /\ threads["t2"].current_time - threads["t1"].current_time < min_interval

====
